---- MODULE Spec2Model ----
(***************************************************************************)
(* Model of local_utils/data_utils.py: the character codec of FeatureIO    *)
(* (char_to_int, int_to_char, encode_labels), the sparse decoder           *)
(* (sparse_tensor_to_str) and TextFeatureWriter.write_features.            *)
(*                                                                         *)
(* Representation.  A character is its code point (ord/chr are the         *)
(* representation itself).  A Python str holding a decimal number, such as *)
(* a dictionary key "97", is the sequence of its digits <<9, 7>>; str(int) *)
(* is DecStr and int(str) is ParseInt.  A dict is the sequence of its      *)
(* <<key, value>> items in iteration order.  A call's outcome is a record  *)
(* [err, val]: err = "none" when it returns val, else the exception raised.*)
(***************************************************************************)
EXTENDS Integers, Sequences, FiniteSets, TLC

VARIABLES
    char_dict,      \* FeatureIO.__char_dict
    ord_map,        \* FeatureIO.__ord_map
    op,             \* the codec / decoder method called last ("none" before any call)
    arg,            \* its argument
    ret,            \* its outcome
    pc,             \* write_features: position of the call
    labels,         \* write_features: the labels argument
    images,         \* write_features: the images argument
    imagenames,     \* write_features: the imagenames argument
    encoded,        \* write_features: labels after line 178
    lengths,        \* write_features: lengths after line 178
    index,          \* write_features: number of loop iterations completed
    sink,           \* the TFRecordWriter: "unopened", "open" or "closed"
    emitted,        \* the records written to the sink, in order
    raised          \* write_features: the exception that ended the call, or "none"

vars == <<char_dict, ord_map, op, arg, ret, pc, labels, images, imagenames,
          encoded, lengths, index, sink, emitted, raised>>

codecVars == <<op, arg, ret>>
writerVars == <<pc, labels, images, imagenames, encoded, lengths, index, sink,
                emitted, raised>>

----------------------------------------------------------------------------
(* Bounds *)

MaxLabelLen == 3        \* longest label given to the codec
MaxRows == 1            \* largest dense_shape[0]
MaxCols == 2            \* largest dense_shape[1]
MaxEntries == 2         \* most entries of a sparse tensor
MaxBatch == 2           \* longest list given to write_features
MaxWriteLabelLen == 1   \* longest label given to write_features

----------------------------------------------------------------------------
(* Strings, characters, dictionaries *)

NUL == 0    \* '\x00', the marker int_to_char returns for the default fill

\* str(n) for an int n >= 0
RECURSIVE DecStr(_)
DecStr(n) == IF n < 10 THEN <<n>> ELSE Append(DecStr(n \div 10), n % 10)

\* int(s) for a decimal string s
RECURSIVE ParseInt(_)
ParseInt(s) ==
    IF Len(s) = 1 THEN s[1]
    ELSE 10 * ParseInt(SubSeq(s, 1, Len(s) - 1)) + s[Len(s)]

\* str.lower() on one character
Lower(c) == IF c \in 65..90 THEN c + 32 ELSE c

HasKey(d, k) == \E i \in 1..Len(d) : d[i][1] = k

\* d[k] for a key the dict holds
Lookup(d, k) == d[CHOOSE i \in 1..Len(d) : d[i][1] = k][2]

Ok(v) == [err |-> "none", val |-> v]
Raise(e) == [err |-> e, val |-> <<>>]

----------------------------------------------------------------------------
(* The dictionaries FeatureIO is constructed with.  The two files are      *)
(* inputs.  ord_map maps a sequential index to an ordinal, both as decimal *)
(* strings.  char_dict maps a key to a character; the key is the           *)
(* sequential index ("index") or the ordinal ("ordinal", the key line 114  *)
(* is given by lines 138-148).  Index 1 is left out of the numbering       *)
(* (reserved) or not.                                                      *)

Alphabet == <<97, 98>>      \* 'a', 'b'

IndexOf(i, reserve1) == IF reserve1 /\ i >= 2 THEN i ELSE i - 1

OrdMapOf(reserve1) ==
    [i \in 1..Len(Alphabet) |-> <<DecStr(IndexOf(i, reserve1)), DecStr(Alphabet[i])>>]

CharDictOf(keying, reserve1) ==
    [i \in 1..Len(Alphabet) |->
        <<IF keying = "index" THEN DecStr(IndexOf(i, reserve1)) ELSE DecStr(Alphabet[i]),
          Alphabet[i]>>]

Keyings == {"index", "ordinal"}

----------------------------------------------------------------------------
(* FeatureIO: the codec *)

\* A number as int_to_char receives it: a Python int [t |-> "int", v |-> n],
\* a numpy string [t |-> "str", v |-> digits], or the numpy float 1.0 of an
\* np.ones grid of float dtype [t |-> "float", v |-> 1].
PyInt(n) == [t |-> "int", v |-> n]
NpStr(s) == [t |-> "str", v |-> s]
NpFloatOne == [t |-> "float", v |-> 1]

\* number == 1 or number == '1'
IsOne(x) ==
    \/ x.t \in {"int", "float"} /\ x.v = 1
    \/ x.t = "str" /\ x.v = <<1>>

\* str(number)
PyStr(x) == IF x.t = "str" THEN x.v ELSE DecStr(x.v)

\* The first item of ord_map whose value is str(temp), 0 when there is none.
RECURSIVE ScanOrdMap(_, _, _)
ScanOrdMap(om, s, i) ==
    IF i > Len(om) THEN 0
    ELSE IF om[i][2] = s THEN i
    ELSE ScanOrdMap(om, s, i + 1)

\* char_to_int without the lower()
char_to_int_NoLower(om, char) ==
    LET i == ScanOrdMap(om, DecStr(char), 1)
    IN  IF i = 0 THEN Raise("KeyError") ELSE Ok(ParseInt(om[i][1]))

\* char_to_int answering index 0 for a character ord_map does not hold
char_to_int_DefaultZero(om, char) ==
    LET i == ScanOrdMap(om, DecStr(Lower(char)), 1)
    IN  IF i = 0 THEN Ok(0) ELSE Ok(ParseInt(om[i][1]))

char_to_int(om, char) ==
    LET temp == Lower(char)
        i == ScanOrdMap(om, DecStr(temp), 1)
    IN  IF i = 0 THEN Raise("KeyError") ELSE Ok(ParseInt(om[i][1]))

int_to_char(cd, number) ==
    IF IsOne(number) THEN Ok(NUL)
    ELSE IF HasKey(cd, PyStr(number)) THEN Ok(Lookup(cd, PyStr(number)))
    ELSE Raise("KeyError")

\* [self.char_to_int(char) for char in label]
RECURSIVE EncodeLabel(_, _)
EncodeLabel(om, label) ==
    IF label = <<>> THEN Ok(<<>>)
    ELSE LET h == char_to_int(om, Head(label))
         IN  IF h.err # "none" THEN Raise(h.err)
             ELSE LET t == EncodeLabel(om, Tail(label))
                  IN  IF t.err # "none" THEN Raise(t.err)
                      ELSE Ok(<<h.val>> \o t.val)

\* val = [encoded_labels, lengths]
RECURSIVE encode_labels(_, _)
encode_labels(om, ls) ==
    IF ls = <<>> THEN Ok(<<<<>>, <<>>>>)
    ELSE LET h == EncodeLabel(om, Head(ls))
         IN  IF h.err # "none" THEN Raise(h.err)
             ELSE LET t == encode_labels(om, Tail(ls))
                  IN  IF t.err # "none" THEN Raise(t.err)
                      ELSE Ok(<<<<h.val>> \o t.val[1], <<Len(Head(ls))>> \o t.val[2]>>)

\* [self.int_to_char(val) for val in number_list]
RECURSIVE CharsOfRow(_, _)
CharsOfRow(cd, number_list) ==
    IF number_list = <<>> THEN Ok(<<>>)
    ELSE LET h == int_to_char(cd, Head(number_list))
         IN  IF h.err # "none" THEN Raise(h.err)
             ELSE LET t == CharsOfRow(cd, Tail(number_list))
                  IN  IF t.err # "none" THEN Raise(t.err)
                      ELSE Ok(<<h.val>> \o t.val)

\* ''.join(c for c in str_list if c != '\x00')
JoinRow(str_list) == SelectSeq(str_list, LAMBDA c : c # NUL)

----------------------------------------------------------------------------
(* FeatureIO.sparse_tensor_to_str *)

\* A sparse tensor is [indices, values, dense_shape]: indices a sequence of
\* <<row, col>>, values the aligned sequence of ints, dense_shape <<rows, cols>>.

\* The values taken as they come, not translated through ord_map
TranslateValues_Untranslated(om, values) ==
    Ok([i \in 1..Len(values) |-> NpStr(DecStr(values[i]))])

\* np.array([self.__ord_map[str(tmp)] for tmp in values])
RECURSIVE TranslateValues(_, _)
TranslateValues(om, values) ==
    IF values = <<>> THEN Ok(<<>>)
    ELSE IF ~HasKey(om, DecStr(Head(values))) THEN Raise("KeyError")
    ELSE LET t == TranslateValues(om, Tail(values))
         IN  IF t.err # "none" THEN Raise(t.err)
             ELSE Ok(<<NpStr(Lookup(om, DecStr(Head(values))))>> \o t.val)

\* np.ones(dense_shape, dtype=values.dtype): an empty list makes a float64
\* array, so the grid holds 1.0; a list of strings makes a unicode array, so
\* the grid holds '1'.
\* A grid of one row too many
OnesGrid_ExtraRow(dense_shape, values) ==
    LET one == IF values = <<>> THEN NpFloatOne ELSE NpStr(<<1>>)
    IN  [r \in 1..dense_shape[1] + 1 |-> [c \in 1..dense_shape[2] |-> one]]

OnesGrid(dense_shape, values) ==
    LET one == IF values = <<>> THEN NpFloatOne ELSE NpStr(<<1>>)
    IN  [r \in 1..dense_shape[1] |-> [c \in 1..dense_shape[2] |-> one]]

\* numpy's resolution of an index i along an axis of size n: i in -n..n-1 is
\* valid and a negative i counts from the end.
AxisValid(i, n) == -n <= i /\ i < n
AxisResolve(i, n) == IF i < 0 THEN i + n ELSE i

\* The loop keeping the first value written to a cell
RECURSIVE FillGrid_FirstWins(_, _, _, _, _)
FillGrid_FirstWins(number_lists, dense_shape, indices, values, i) ==
    IF i > Len(indices) THEN Ok(number_lists)
    ELSE IF ~(AxisValid(indices[i][1], dense_shape[1]) /\ AxisValid(indices[i][2], dense_shape[2]))
         THEN Raise("IndexError")
    ELSE LET r == AxisResolve(indices[i][1], dense_shape[1]) + 1
             c == AxisResolve(indices[i][2], dense_shape[2]) + 1
         IN  FillGrid_FirstWins(
                 IF IsOne(number_lists[r][c])
                 THEN [number_lists EXCEPT ![r][c] = values[i]]
                 ELSE number_lists,
                 dense_shape, indices, values, i + 1)

\* for i, index in enumerate(indices): number_lists[index[0], index[1]] = values[i]
RECURSIVE FillGrid(_, _, _, _, _)
FillGrid(number_lists, dense_shape, indices, values, i) ==
    IF i > Len(indices) THEN Ok(number_lists)
    ELSE IF ~(AxisValid(indices[i][1], dense_shape[1]) /\ AxisValid(indices[i][2], dense_shape[2]))
         THEN Raise("IndexError")
    ELSE LET r == AxisResolve(indices[i][1], dense_shape[1]) + 1
             c == AxisResolve(indices[i][2], dense_shape[2]) + 1
         IN  FillGrid([number_lists EXCEPT ![r][c] = values[i]],
                      dense_shape, indices, values, i + 1)

\* lines 146-152: each row through int_to_char, then joined without '\x00'
RECURSIVE DecodeRows(_, _, _)
DecodeRows(cd, number_lists, r) ==
    IF r > Len(number_lists) THEN Ok(<<>>)
    ELSE LET h == CharsOfRow(cd, number_lists[r])
         IN  IF h.err # "none" THEN Raise(h.err)
             ELSE LET t == DecodeRows(cd, number_lists, r + 1)
                  IN  IF t.err # "none" THEN Raise(t.err)
                      ELSE Ok(<<JoinRow(h.val)>> \o t.val)

\* The outcome, with the grid as the call left it (<<>> when it was never
\* allocated).
sparse_tensor_to_str(cd, om, sparse_tensor) ==
    LET values == TranslateValues(om, sparse_tensor.values)
    IN  IF values.err # "none" THEN [err |-> values.err, val |-> <<>>, grid |-> <<>>]
        ELSE LET ones == OnesGrid(sparse_tensor.dense_shape, values.val)
                 filled == FillGrid(ones, sparse_tensor.dense_shape,
                                    sparse_tensor.indices, values.val, 1)
             IN  IF filled.err # "none"
                 THEN [err |-> filled.err, val |-> <<>>, grid |-> <<>>]
                 ELSE LET res == DecodeRows(cd, filled.val, 1)
                      IN  [err |-> res.err, val |-> res.val, grid |-> filled.val]

----------------------------------------------------------------------------
(* Inputs *)

Chars == {65, 97, 98, 122}      \* 'A', 'a', 'b', and 'z', which no dictionary holds

RECURSIVE SeqsUpTo(_, _)
SeqsUpTo(S, n) ==
    IF n = 0 THEN {<<>>}
    ELSE LET shorter == SeqsUpTo(S, n - 1)
         IN  shorter \cup {Append(s, x) : s \in {t \in shorter : Len(t) = n - 1}, x \in S}

Labels == SeqsUpTo(Chars, MaxLabelLen)

\* The ints int_to_char is asked about: the sequential indices and the ordinals.
Numbers == (0..Len(Alphabet) + 1) \cup {Alphabet[i] : i \in 1..Len(Alphabet)}

\* The values of a sparse tensor: the sequential indices, 1 included.
Values == 0..Len(Alphabet)

\* The coordinates tried along an axis of size n: every cell, -1, and n.
Coords(n) == -1..n

----------------------------------------------------------------------------
(* Codec specification: a FeatureIO and one call of a codec method.  The   *)
(* dictionaries never change after construction, so a behaviour holds one  *)
(* call: op = "none" until it is made.                                     *)

InitDicts ==
    \E keying \in Keyings, reserve1 \in BOOLEAN :
        /\ char_dict = CharDictOf(keying, reserve1)
        /\ ord_map = OrdMapOf(reserve1)

InitCalls ==
    /\ op = "none" /\ arg = <<>> /\ ret = <<>>

InitWriter ==
    /\ pc = "idle"
    /\ labels = <<>> /\ images = <<>> /\ imagenames = <<>>
    /\ encoded = <<>> /\ lengths = <<>>
    /\ index = 0
    /\ sink = "unopened"
    /\ emitted = <<>>
    /\ raised = "none"

Init == InitDicts /\ InitCalls /\ InitWriter

CallCharToInt ==
    /\ op = "none"
    /\ \E c \in Chars :
        /\ op' = "char_to_int" /\ arg' = c
        /\ ret' = char_to_int(ord_map, c)
        /\ UNCHANGED <<char_dict, ord_map, writerVars>>

CallIntToChar ==
    /\ op = "none"
    /\ \E n \in Numbers :
        /\ op' = "int_to_char" /\ arg' = n
        /\ ret' = int_to_char(char_dict, PyInt(n))
        /\ UNCHANGED <<char_dict, ord_map, writerVars>>

CallEncodeLabels ==
    /\ op = "none"
    /\ \E label \in Labels :
        /\ op' = "encode_labels" /\ arg' = <<label>>
        /\ ret' = encode_labels(ord_map, <<label>>)
        /\ UNCHANGED <<char_dict, ord_map, writerVars>>

NextCodec == CallCharToInt \/ CallIntToChar \/ CallEncodeLabels

SpecCodec == Init /\ [][NextCodec]_vars

----------------------------------------------------------------------------
(* Decoder specification: a FeatureIO and calls of sparse_tensor_to_str *)

InitSparse ==
    /\ \E keying \in Keyings :
        /\ char_dict = CharDictOf(keying, TRUE)
        /\ ord_map = OrdMapOf(TRUE)
    /\ InitCalls /\ InitWriter

CallSparseTensorToStr ==
    /\ op = "none"
    /\ \E rows \in 0..MaxRows, cols \in 0..MaxCols, n \in 0..MaxEntries :
        \E indices \in [1..n -> Coords(rows) \X Coords(cols)], values \in [1..n -> Values] :
            /\ op' = "sparse_tensor_to_str"
            /\ arg' = [indices |-> indices, values |-> values, dense_shape |-> <<rows, cols>>]
            /\ ret' = sparse_tensor_to_str(char_dict, ord_map, arg')
            /\ UNCHANGED <<char_dict, ord_map, writerVars>>

NextSparse == CallSparseTensorToStr

SpecSparse == InitSparse /\ [][NextSparse]_vars

----------------------------------------------------------------------------
(* TextFeatureWriter.write_features *)

\* An image is a bytes object, an image name a str of ASCII characters.
Bytes(b) == [t |-> "bytes", v |-> b]
Image(i) == Bytes(<<i>>)
Name(i) == <<110, 48 + i>>      \* "n1", "n2", ...

\* str.encode('utf-8') on ASCII text: one byte per character
Utf8(s) == Bytes(s)

\* int64_feature of a list of ints (lines 47-55 leave it as it is) and of one
\* int (lines 45-46 wrap it)
Int64FeatureOfList(value) == value
Int64FeatureOfInt(value) == <<value>>

\* bytes_feature of a bytes object (lines 84-85) and of a str (lines 79-81, 84-85)
BytesFeatureOfBytes(value) == <<value>>
BytesFeatureOfStr(value) == <<Utf8(value)>>

\* The record of loop iteration i (1-based), lines 184-190
Example(i) ==
    [labels     |-> Int64FeatureOfList(encoded[i]),
     images     |-> BytesFeatureOfBytes(images[i]),
     imagenames |-> BytesFeatureOfStr(imagenames[i]),
     lengths    |-> Int64FeatureOfInt(lengths[i])]

WriteChars == {65, 98, 122}     \* 'A', 'b', and 'z', which no dictionary holds

WriteLabels == SeqsUpTo(WriteChars, MaxWriteLabelLen)

\* The assertion comparing the labels with the images only
LengthsAgree_FirstPair(ls, ims, ns) == Len(ls) = Len(ims)

\* assert len(labels) == len(images) == len(imagenames)
LengthsAgree(ls, ims, ns) == Len(ls) = Len(ims) /\ Len(ims) = Len(ns)

\* Lines 172-178: the assertion, the display widths (max() of an empty
\* sequence raises ValueError) and encode_labels.
WriteFeaturesEnter ==
    /\ pc = "idle"
    /\ \E ls \in SeqsUpTo(WriteLabels, MaxBatch), ni \in 0..MaxBatch, nn \in 0..MaxBatch :
        LET ims == [i \in 1..ni |-> Image(i)]
            ns == [i \in 1..nn |-> Name(i)]
            enc == encode_labels(ord_map, ls)
        IN  /\ labels' = ls /\ images' = ims /\ imagenames' = ns
            /\ IF ~LengthsAgree(ls, ims, ns)
               THEN /\ raised' = "AssertionError" /\ pc' = "raised"
                    /\ UNCHANGED <<encoded, lengths>>
               ELSE IF ns = <<>>
               THEN /\ raised' = "ValueError" /\ pc' = "raised"
                    /\ UNCHANGED <<encoded, lengths>>
               ELSE IF enc.err # "none"
               THEN /\ raised' = enc.err /\ pc' = "raised"
                    /\ UNCHANGED <<encoded, lengths>>
               ELSE /\ encoded' = enc.val[1] /\ lengths' = enc.val[2]
                    /\ pc' = "makedirs"
                    /\ UNCHANGED raised
    /\ UNCHANGED <<char_dict, ord_map, codecVars, index, sink, emitted>>

\* Line 180
MakeDirs ==
    /\ pc = "makedirs"
    /\ pc' = "open"
    /\ UNCHANGED <<char_dict, ord_map, codecVars, labels, images, imagenames,
                   encoded, lengths, index, sink, emitted, raised>>

\* Line 180, the file system refusing
MakeDirsFails ==
    /\ pc = "makedirs"
    /\ raised' = "OSError" /\ pc' = "raised"
    /\ UNCHANGED <<char_dict, ord_map, codecVars, labels, images, imagenames,
                   encoded, lengths, index, sink, emitted>>

\* Line 182: the with statement acquires the writer
OpenSink ==
    /\ pc = "open"
    /\ sink' = "open" /\ pc' = "loop"
    /\ UNCHANGED <<char_dict, ord_map, codecVars, labels, images, imagenames,
                   encoded, lengths, index, emitted, raised>>

\* Line 182: TFRecordWriter(...) raising, nothing acquired
OpenSinkFails ==
    /\ pc = "open"
    /\ raised' = "IOError" /\ pc' = "raised"
    /\ UNCHANGED <<char_dict, ord_map, codecVars, labels, images, imagenames,
                   encoded, lengths, index, sink, emitted>>

\* Lines 183-194: one iteration of the loop
WriteRecord ==
    /\ pc = "loop" /\ index < Len(images)
    /\ emitted' = Append(emitted, Example(index + 1))
    /\ index' = index + 1
    /\ UNCHANGED <<char_dict, ord_map, codecVars, pc, labels, images, imagenames,
                   encoded, lengths, sink, raised>>

\* Line 191: writer.write raising; the exception leaves the with block
WriteRecordFails ==
    /\ pc = "loop" /\ index < Len(images)
    /\ raised' = "IOError" /\ pc' = "exit"
    /\ UNCHANGED <<char_dict, ord_map, codecVars, labels, images, imagenames,
                   encoded, lengths, index, sink, emitted>>

\* Line 183: the loop is exhausted; control leaves the with block
LoopEnd ==
    /\ pc = "loop" /\ index = Len(images)
    /\ pc' = "exit"
    /\ UNCHANGED <<char_dict, ord_map, codecVars, labels, images, imagenames,
                   encoded, lengths, index, sink, emitted, raised>>

\* A writer closed after the loop only, with no with statement around it
ExitWith_CloseAfterLoopOnly ==
    /\ pc = "exit"
    /\ sink' = IF raised = "none" THEN "closed" ELSE sink
    /\ pc' = IF raised = "none" THEN "print" ELSE "raised"
    /\ UNCHANGED <<char_dict, ord_map, codecVars, labels, images, imagenames,
                   encoded, lengths, index, emitted, raised>>

\* Line 182: the with statement's exit closes the writer, on a normal exit
\* and on an exception alike, and an exception then propagates
ExitWith ==
    /\ pc = "exit"
    /\ sink' = "closed"
    /\ pc' = IF raised = "none" THEN "print" ELSE "raised"
    /\ UNCHANGED <<char_dict, ord_map, codecVars, labels, images, imagenames,
                   encoded, lengths, index, emitted, raised>>

\* Line 195
Return ==
    /\ pc = "print"
    /\ pc' = "returned"
    /\ UNCHANGED <<char_dict, ord_map, codecVars, labels, images, imagenames,
                   encoded, lengths, index, sink, emitted, raised>>

\* A step of the call once it is past its first lines
WriteStep ==
    \/ MakeDirs \/ MakeDirsFails
    \/ OpenSink \/ OpenSinkFails
    \/ WriteRecord \/ WriteRecordFails \/ LoopEnd
    \/ ExitWith
    \/ Return

NextWriter == WriteFeaturesEnter \/ WriteStep

\* write_features reads ord_map alone, so one layout of char_dict is drawn.
InitWrite ==
    /\ \E reserve1 \in BOOLEAN :
        /\ char_dict = CharDictOf("ordinal", reserve1)
        /\ ord_map = OrdMapOf(reserve1)
    /\ InitCalls /\ InitWriter

SpecWriter == InitWrite /\ [][NextWriter]_vars

\* The call runs on one thread to its end: a call that can take a step takes
\* one.  Whether a call is made at all is left to the caller.
SpecWriterFair == SpecWriter /\ WF_vars(WriteStep)

----------------------------------------------------------------------------
(* Properties: the codec *)

LowerAll(label) == [i \in 1..Len(label) |-> Lower(label[i])]

\* The character's lower-cased ordinal is a value of ord_map.
KnownChar(om, c) == \E j \in 1..Len(om) : om[j][2] = DecStr(Lower(c))
KnownLabel(om, label) == \A i \in 1..Len(label) : KnownChar(om, label[i])

\* Index 1 is assigned to no character.
IndexOneFree(om) == \A j \in 1..Len(om) : ParseInt(om[j][1]) # 1

\* char_dict is keyed by the sequential index: for every item k -> o of
\* ord_map, char_dict[str(int(k))] is the character of ordinal o.
IndexKeyed(cd, om) ==
    \A j \in 1..Len(om) :
        LET k == DecStr(ParseInt(om[j][1]))
        IN  HasKey(cd, k) /\ DecStr(Lookup(cd, k)) = om[j][2]

\* char_dict is keyed by the ordinal: for every item k -> o of ord_map,
\* char_dict[o] is the character of ordinal o.
OrdinalKeyed(cd, om) ==
    \A j \in 1..Len(om) :
        HasKey(cd, om[j][2]) /\ DecStr(Lookup(cd, om[j][2])) = om[j][2]

\* Each index through int_to_char, concatenated without the marker.
DecodeIndices(cd, idxs) ==
    LET cs == CharsOfRow(cd, [i \in 1..Len(idxs) |-> PyInt(idxs[i])])
    IN  IF cs.err # "none" THEN Raise(cs.err) ELSE Ok(JoinRow(cs.val))

\* Each index through ord_map first, then through int_to_char.
DecodeIndicesViaOrdMap(cd, om, idxs) ==
    LET os == TranslateValues(om, idxs)
    IN  IF os.err # "none" THEN Raise(os.err)
        ELSE LET cs == CharsOfRow(cd, os.val)
             IN  IF cs.err # "none" THEN Raise(cs.err) ELSE Ok(JoinRow(cs.val))

Returns(r, v) == r.err = "none" /\ r.val = v

EncodedALabel == op = "encode_labels" /\ KnownLabel(ord_map, arg[1]) /\ IndexOneFree(ord_map)

\* C1 as stated: for every label of characters known to ord_map, with index 1
\* assigned to no character, encode_labels returns, and its indices mapped
\* through int_to_char and joined without the marker give lowercase(label).
C1_RoundTripAsStated ==
    EncodedALabel =>
        /\ ret.err = "none"
        /\ Returns(DecodeIndices(char_dict, ret.val[1][1]), LowerAll(arg[1]))

\* C1 as amended: the round trip of C1 holds when char_dict is keyed by the
\* sequential index; when char_dict is keyed by the ordinal it holds of the
\* indices translated through ord_map before int_to_char.
C1_RoundTrip ==
    EncodedALabel =>
        /\ ret.err = "none"
        /\ ret.val[2] = <<Len(arg[1])>>
        /\ IndexKeyed(char_dict, ord_map) =>
               Returns(DecodeIndices(char_dict, ret.val[1][1]), LowerAll(arg[1]))
        /\ OrdinalKeyed(char_dict, ord_map) =>
               Returns(DecodeIndicesViaOrdMap(char_dict, ord_map, ret.val[1][1]),
                       LowerAll(arg[1]))

\* "Ab" was encoded to [0, 2] and decodes to "ab" under an index-keyed char_dict.
C1_Witness ==
    /\ EncodedALabel /\ IndexKeyed(char_dict, ord_map)
    /\ arg[1] = <<65, 98>>
    /\ Returns(ret, <<<<<<0, 2>>>>, <<2>>>>)
    /\ Returns(DecodeIndices(char_dict, ret.val[1][1]), <<97, 98>>)

----------------------------------------------------------------------------
(* Properties: sparse_tensor_to_str *)

Decoded == op = "sparse_tensor_to_str"

NumRows == arg.dense_shape[1]
NumCols == arg.dense_shape[2]

\* The pair lies in the grid: 0 <= row < rows and 0 <= col < cols.
InGrid(rc) == 0 <= rc[1] /\ rc[1] < NumRows /\ 0 <= rc[2] /\ rc[2] < NumCols

AllInGrid == \A i \in 1..Len(arg.indices) : InGrid(arg.indices[i])

PairwiseDistinct ==
    \A i, j \in 1..Len(arg.indices) : i # j => arg.indices[i] # arg.indices[j]

\* Every value is a sequential index of ord_map.
ValuesAreIndices == \A i \in 1..Len(arg.values) : HasKey(ord_map, DecStr(arg.values[i]))

\* The character of a sequential index: the one whose ordinal ord_map gives.
CharOfIndex(v) == ParseInt(Lookup(ord_map, DecStr(v)))

\* The characters of the values at row r (0-based), in column order.
RECURSIVE RowText(_, _)
RowText(r, c) ==
    IF c >= NumCols THEN <<>>
    ELSE (IF \E i \in 1..Len(arg.indices) : arg.indices[i] = <<r, c>>
          THEN <<CharOfIndex(arg.values[CHOOSE i \in 1..Len(arg.indices) :
                                             arg.indices[i] = <<r, c>>])>>
          ELSE <<>>) \o RowText(r, c + 1)

DecodesToRowTexts ==
    /\ ret.err = "none"
    /\ Len(ret.val) = NumRows
    /\ \A r \in 1..NumRows : ret.val[r] = RowText(r - 1, 0)

\* C2 as stated: with char_dict keyed by the sequential index, a sparse tensor
\* of in-grid, pairwise distinct indices and values that are sequential
\* indices decodes, row by row, to the characters of the values in column
\* order; indices [(0,0),(0,1)], values [0,2], shape (1,2) give ["ab"].
C2_DecodesAsStated ==
    (Decoded /\ IndexKeyed(char_dict, ord_map)
             /\ AllInGrid /\ PairwiseDistinct /\ ValuesAreIndices)
        => DecodesToRowTexts

\* C2 as amended: the same with char_dict keyed by the ordinal (97 -> 'a',
\* 98 -> 'b'), ord_map mapping index 0 to 97 and index 2 to 98.
C2_Decodes ==
    (Decoded /\ OrdinalKeyed(char_dict, ord_map)
             /\ AllInGrid /\ PairwiseDistinct /\ ValuesAreIndices)
        => DecodesToRowTexts

\* indices [(0,0),(0,1)], values [0,2], shape (1,2) decoded to ["ab"].
C2_Witness ==
    /\ Decoded /\ OrdinalKeyed(char_dict, ord_map)
    /\ arg = [indices |-> <<<<0, 0>>, <<0, 1>>>>, values |-> <<0, 2>>,
              dense_shape |-> <<1, 2>>]
    /\ Returns(ret, <<<<97, 98>>>>)

\* C3: when sparse_tensor_to_str returns, it returns dense_shape[0] strings,
\* each of at most dense_shape[1] characters.
C3_Shape ==
    (Decoded /\ ret.err = "none") =>
        /\ Len(ret.val) = NumRows
        /\ \A r \in 1..Len(ret.val) : Len(ret.val[r]) <= NumCols

\* A returning call on a grid with more columns than the row has characters,
\* and one on a full row.
C3_Witness ==
    /\ Decoded /\ ret.err = "none"
    /\ NumRows = 1 /\ NumCols = 2
    /\ Len(arg.indices) = 1
    /\ Len(ret.val) = 1 /\ Len(ret.val[1]) = 1

\* The cell (1-based row and column of the grid) that entry i is written to.
CellOf(i) ==
    <<AxisResolve(arg.indices[i][1], NumRows) + 1,
      AxisResolve(arg.indices[i][2], NumCols) + 1>>

\* The last entry, in input order, written to the cell of entry i.
LastWriter(i) ==
    CHOOSE k \in 1..Len(arg.indices) :
        /\ CellOf(k) = CellOf(i)
        /\ \A m \in 1..Len(arg.indices) : CellOf(m) = CellOf(i) => m <= k

\* The sparse tensor without its entry i.
WithoutEntry(i) ==
    LET keep == [k \in 1..Len(arg.indices) - 1 |-> IF k < i THEN k ELSE k + 1]
    IN  [indices |-> [k \in 1..Len(keep) |-> arg.indices[keep[k]]],
         values |-> [k \in 1..Len(keep) |-> arg.values[keep[k]]],
         dense_shape |-> arg.dense_shape]

\* Entry i has the (row, col) pair of a later entry.
Repeated(i) ==
    \E j \in 1..Len(arg.indices) : i < j /\ arg.indices[i] = arg.indices[j]

\* The place, in the decoded string of its row, of the character of a written
\* cell: unwritten cells before it hold the default and give no character.
PlaceInRow(cell) ==
    Cardinality({c \in 1..cell[2] :
                    \E k \in 1..Len(arg.indices) : CellOf(k) = <<cell[1], c>>})

\* C4: when a (row, col) pair occurs more than once and the call returns, the
\* cell holds the ordinal of the entry written to it last in input order, the
\* character decoded at that position is that entry's, and the earlier entry
\* has no effect: without it the call returns the same strings.
C4_LastWriteWins ==
    (Decoded /\ ret.err = "none") =>
        \A i \in 1..Len(arg.indices) :
            Repeated(i) =>
                /\ ret.grid[CellOf(i)[1]][CellOf(i)[2]].t = "str"
                /\ ret.grid[CellOf(i)[1]][CellOf(i)[2]].v =
                       Lookup(ord_map, DecStr(arg.values[LastWriter(i)]))
                /\ ret.val[CellOf(i)[1]][PlaceInRow(CellOf(i))] =
                       CharOfIndex(arg.values[LastWriter(i)])
                /\ LET without == sparse_tensor_to_str(char_dict, ord_map, WithoutEntry(i))
                   IN  Returns(without, ret.val)

\* (0,0) was given 'a' and then 'b', and the row decoded to "b".
C4_Witness ==
    /\ Decoded /\ ret.err = "none"
    /\ arg.indices = <<<<0, 0>>, <<0, 0>>>>
    /\ arg.values = <<0, 2>>
    /\ arg.dense_shape = <<1, 1>>
    /\ ret.val = <<<<98>>>>

\* Some pair lies outside the grid.
SomeOutOfGrid == \E i \in 1..Len(arg.indices) : ~InGrid(arg.indices[i])

\* C5 as stated, in the part that does not depend on the kind of the error:
\* the call fails, returning no strings, whenever a (row, col) pair lies
\* outside the grid (row < 0, row >= rows, col < 0 or col >= cols); no such
\* entry is written into another cell.
C5_OutOfGridFails ==
    (Decoded /\ SomeOutOfGrid) => ret.err # "none"

\* C6 as stated: when the call returns, a row that no (row, col) pair of
\* indices names decodes to the empty string.
C6_EmptyRowDecodesEmpty ==
    (Decoded /\ ret.err = "none") =>
        \A r \in 0..NumRows - 1 :
            (\A i \in 1..Len(arg.indices) : arg.indices[i][1] # r) =>
                (r + 1 \in DOMAIN ret.val /\ ret.val[r + 1] = <<>>)

----------------------------------------------------------------------------
(* Properties: write_features *)

Entered == pc # "idle"
Ended == pc \in {"returned", "raised"}

EqualLengths == Len(labels) = Len(images) /\ Len(images) = Len(imagenames)

AllLabelsKnown == \A i \in 1..Len(labels) : KnownLabel(ord_map, labels[i])

NothingWritten == sink = "unopened" /\ emitted = <<>>

\* C7: a call with lists of unequal lengths raises the assertion's error
\* before the sink is opened and before any record is emitted.
C7_UnequalLengthsRejected ==
    (Entered /\ ~EqualLengths) =>
        /\ pc = "raised" /\ raised = "AssertionError"
        /\ NothingWritten

\* Two labels and one image were rejected.
C7_Witness ==
    /\ Len(labels) = 2 /\ Len(images) = 1
    /\ pc = "raised" /\ raised = "AssertionError"
    /\ NothingWritten

\* The index char_to_int gives a known character: the key of the first item
\* of ord_map holding its lower-cased ordinal.
IndexOfChar(c) ==
    ParseInt(ord_map[CHOOSE j \in 1..Len(ord_map) :
                        /\ ord_map[j][2] = DecStr(Lower(c))
                        /\ \A m \in 1..j - 1 : ord_map[m][2] # DecStr(Lower(c))][1])

\* The record C8 describes for item i.
ExpectedRecord(i) ==
    [labels     |-> [k \in 1..Len(labels[i]) |-> IndexOfChar(labels[i][k])],
     images     |-> <<images[i]>>,
     imagenames |-> <<Bytes(imagenames[i])>>,
     lengths    |-> <<Len(labels[i])>>]

\* C8 as stated: for every batch of n >= 0 items of equal-length lists whose
\* labels hold only known characters, the call (the sink not failing)
\* completes and has emitted exactly the n records, in input order.
C8_EmitsEveryRecord ==
    (Ended /\ EqualLengths /\ AllLabelsKnown /\ raised \notin {"OSError", "IOError"}) =>
        /\ pc = "returned" /\ raised = "none"
        /\ Len(emitted) = Len(labels)
        /\ \A i \in 1..Len(emitted) : emitted[i] = ExpectedRecord(i)

\* C9: once the sink is open it is eventually closed, whether the batch
\* completes or emitting a record fails part-way.
C9_SinkReleased == (sink = "open") ~> (sink = "closed")

\* A write failed after one record of two; the sink is closed.
C9_Witness ==
    /\ pc = "raised" /\ raised = "IOError"
    /\ Len(images) = 2 /\ Len(emitted) = 1
    /\ sink = "closed"

\* C10: an equal-length batch with a label holding an unknown character fails
\* with the lookup error and emits no record, the items before the offending
\* label included: the sink is never opened.
C10_UnknownCharacterAborts ==
    (Entered /\ EqualLengths /\ ~AllLabelsKnown) =>
        /\ pc = "raised" /\ raised = "KeyError"
        /\ NothingWritten

\* The second label of two held 'z'; nothing was written for the first.
C10_Witness ==
    /\ Len(labels) = 2 /\ EqualLengths
    /\ KnownLabel(ord_map, labels[1]) /\ labels[1] # <<>>
    /\ ~KnownLabel(ord_map, labels[2])
    /\ pc = "raised" /\ raised = "KeyError"
    /\ NothingWritten

====
